---------------------------- MODULE Spec2Model ----------------------------
(***************************************************************************)
(* Regex-based text versioning (text_revert.py).                           *)
(*                                                                         *)
(* A text is a sequence of one-character strings.  A regular expression    *)
(* is a sequence of tokens: a literal character, "." (any character but    *)
(* newline) or "(" (an unclosed group, which re.compile rejects).          *)
(*                                                                         *)
(* Spec            is the interactive session of main().                   *)
(* SpecReplay      calls reconstruct_document_at_time / apply_command on   *)
(*                 arguments drawn from bounded sets, one loop iteration   *)
(*                 per step.                                               *)
(* SpecRevertCall  is the session with the call of                         *)
(*                 reconstruct_document_at_time at a revert run one loop   *)
(*                 iteration per step.                                     *)
(***************************************************************************)
EXTENDS Integers, Sequences, FiniteSets, TLC

VARIABLES
    original_document,  \* main: original_document
    current_document,   \* main: current_document
    command_stack,      \* main: command_stack
    timestamp,          \* main: timestamp
    status,             \* "running", "exited" (break at choice 3), "crashed" (uncaught exception)
    output_txt,         \* the contents written to output.txt, oldest first
    last,               \* what the last menu iteration was asked and how it ended
    r_original,         \* reconstruct_document_at_time: original_text
    r_stack,            \* reconstruct_document_at_time: command_stack
    r_target,           \* reconstruct_document_at_time: target_time
    r_index,            \* number of commands the for loop has visited
    r_text,             \* reconstruct_document_at_time: current_text
    r_before,           \* text passed to the last apply_command call
    r_pc                \* "idle", "loop", "returned", "raised"

vars == <<original_document, current_document, command_stack, timestamp,
          status, output_txt, last,
          r_original, r_stack, r_target, r_index, r_text, r_before, r_pc>>

session_vars == <<original_document, current_document, command_stack,
                  timestamp, status, output_txt, last>>

replay_vars == <<r_original, r_stack, r_target, r_index, r_text, r_before, r_pc>>

---------------------------------------------------------------------------
(* Bounds of the model.                                                    *)

MaxLog == 2         \* most commands the session log holds
MaxReplayLog == 2   \* longest stack handed to reconstruct_document_at_time

\* an input line that int() converts, and one on which it raises ValueError
Number(n) == [valid |-> TRUE, value |-> n]
NotANumber == [valid |-> FALSE, value |-> 0]

---------------------------------------------------------------------------
(* Texts and the input sets.                                               *)

CatSat == <<"c", "a", "t", " ", "s", "a", "t">>
CogSat == <<"c", "o", "g", " ", "s", "a", "t">>
CogS == <<"c", "o", "g", " ", "s">>
Og == <<"o", "g">>
At == <<"a", "t">>

\* operation names, each a text of one token
Replace == <<"replace">>
InsertBefore == <<"insert_before">>
InsertAfter == <<"insert_after">>
Delete == <<"delete">>

Documents == {CatSat}

Whitespace == {" ", "\n", "\t"}

\* what the user types at "Enter regex pattern to match: "
PatternInputs == {<<".", "t", " ">>, <<"(">>}

\* what the user types at "Operation: "
OperationInputs == {Replace, InsertBefore, <<" ">> \o InsertAfter, Delete}

\* what the user types at "Choose which occurrence to edit: "
ChoiceInputs == {Number(0), Number(1), Number(2), NotANumber}

\* the lines typed before END
LinesInputs == {<<Og>>}

\* what the user types at "Enter timestamp to revert to: "
TargetInputs == {Number(0 - 1), Number(0), Number(1), Number(2), NotANumber}

\* what the user types at "Continue editing from this state? (y/n): "
DecisionInputs == {"y", "Y", "n"}

\* what the user types at "Enter choice: "
MenuInputs == {<<"1">>, <<"2">>, <<"3", " ">>, <<"4">>}

\* the arguments of the direct calls of reconstruct_document_at_time
ReplayDocuments == {CatSat}

ReplayOperations == {Replace, InsertBefore, InsertAfter, Delete, <<"upper">>}

ReplayOccurrences == {0, 1, 2, 3}

\* commands before their timestamp: every operation on every occurrence of
\* "at", and one command each with a negative occurrence, with a pattern
\* that "cat sat" does not hold, with a pattern that does not compile, and
\* without the "replacement" key
ReplayCommands ==
    {[operation |-> op, pattern |-> At, occurrence |-> occ, replacement |-> Og] :
        op \in ReplayOperations, occ \in ReplayOccurrences}
    \cup {[operation |-> Delete, pattern |-> At, occurrence |-> 0 - 1, replacement |-> Og]}
    \cup {[operation |-> InsertAfter, pattern |-> Og, occurrence |-> 1, replacement |-> Og]}
    \cup {[operation |-> Replace, pattern |-> <<"(">>, occurrence |-> 1, replacement |-> Og]}
    \cup {[operation |-> Replace, pattern |-> <<".">>, occurrence |-> 3]}

\* the commands with the timestamps 1, 2, ... in list order
Stamp(commands) ==
    [i \in 1..Len(commands) |-> commands[i] @@ [timestamp |-> i]]

ReplayStacks ==
    {Stamp(commands) :
        commands \in UNION {[1..n -> ReplayCommands] : n \in 0..MaxReplayLog}}

ReplayTargets == 0..MaxReplayLog

---------------------------------------------------------------------------
(* Library functions the program calls.                                    *)

RECURSIVE lstrip(_)
\* str.strip(), leading part
lstrip(s) ==
    IF s # <<>> /\ Head(s) \in Whitespace THEN lstrip(Tail(s)) ELSE s

RECURSIVE rstrip(_)
\* str.strip(), trailing part
rstrip(s) ==
    IF s # <<>> /\ s[Len(s)] \in Whitespace
    THEN rstrip(SubSeq(s, 1, Len(s) - 1))
    ELSE s

\* str.strip()
strip(s) == rstrip(lstrip(s))

\* str.lower() on the answers of DecisionInputs
lower(s) == IF s = "Y" THEN "y" ELSE s

RECURSIVE join(_)
\* "\n".join(lines)
join(lines) ==
    IF lines = <<>> THEN <<>>
    ELSE IF Len(lines) = 1 THEN lines[1]
    ELSE lines[1] \o <<"\n">> \o join(Tail(lines))

\* text[:index] and text[index:] of Python, index in 0..len(text)
SliceTo(text, index) == SubSeq(text, 1, index)
SliceFrom(text, index) == SubSeq(text, index + 1, Len(text))

\* seq[k] of Python: 0-based, a negative k counts from the end
PyIndex(seq, k) == IF k >= 0 THEN seq[k + 1] ELSE seq[Len(seq) + k + 1]

\* re.compile raises re.error on this pattern (an unclosed group)
PatternSyntaxError(pattern) == \E k \in 1..Len(pattern) : pattern[k] = "("

\* one pattern token against one character
TokenMatches(token, char) == IF token = "." THEN char # "\n" ELSE token = char

\* the pattern matches text[pos : pos + len(pattern)], pos 0-based
MatchesAt(pattern, text, pos) ==
    /\ pos + Len(pattern) <= Len(text)
    /\ \A k \in 1..Len(pattern) : TokenMatches(pattern[k], text[pos + k])

RECURSIVE scan(_, _, _)
\* the matches of re.finditer from position pos on: leftmost first,
\* non-overlapping, an empty match moving the scan on by one character
scan(pattern, text, pos) ==
    IF pos > Len(text) THEN <<>>
    ELSE IF MatchesAt(pattern, text, pos)
    THEN <<[start |-> pos, end |-> pos + Len(pattern)]>>
         \o scan(pattern, text, IF Len(pattern) = 0 THEN pos + 1 ELSE pos + Len(pattern))
    ELSE scan(pattern, text, pos + 1)

\* list(re.finditer(pattern, text)) for a pattern that compiles
finditer(pattern, text) == scan(pattern, text, 0)

---------------------------------------------------------------------------
(* apply_command                                                            *)

\* command.get("replacement", "")
GetReplacement(command) ==
    IF "replacement" \in DOMAIN command THEN command.replacement ELSE <<>>

\* the range check written as for a 0-based occurrence
OccurrenceOutOfRangeZeroBased(occurrence, n) == occurrence < 0 \/ occurrence > n

\* line 75: the occurrence selects no match
OccurrenceOutOfRange(occurrence, n) == occurrence <= 0 \/ occurrence > n

\* line 78: matches[occurrence - 1]
SelectMatch(matches, occurrence) == PyIndex(matches, occurrence - 1)

\* no final else: every other operation falls through with an empty new_text
KnownOperationNoElse(operation) == TRUE

\* lines 82-95: the operation is one apply_command knows
KnownOperation(operation) ==
    operation \in {Replace, InsertAfter, InsertBefore, Delete}

\* the two insert branches exchanged
NewTextInsertsSwapped(operation, matched_text, replacement) ==
    IF operation = Replace THEN replacement
    ELSE IF operation = InsertAfter THEN replacement \o matched_text
    ELSE IF operation = InsertBefore THEN matched_text \o replacement
    ELSE <<>>

\* lines 82-92: new_text, for a known operation
NewText(operation, matched_text, replacement) ==
    IF operation = Replace THEN replacement
    ELSE IF operation = InsertAfter THEN matched_text \o replacement
    ELSE IF operation = InsertBefore THEN replacement \o matched_text
    ELSE <<>>

\* apply_command(text, command), for a pattern that compiles
apply_command(text, command) ==
    LET pattern == command.pattern
        occurrence == command.occurrence
        operation == command.operation
        replacement == GetReplacement(command)
        matches == finditer(pattern, text)
    IN  IF OccurrenceOutOfRange(occurrence, Len(matches)) THEN text
        ELSE LET match == SelectMatch(matches, occurrence)
                 start == match.start
                 end == match.end
                 matched_text == SubSeq(text, start + 1, end)
             IN  IF KnownOperation(operation)
                 THEN SliceTo(text, start)
                      \o NewText(operation, matched_text, replacement)
                      \o SliceFrom(text, end)
                 ELSE text

---------------------------------------------------------------------------
(* reconstruct_document_at_time                                            *)

RECURSIVE replay(_, _, _, _)
RECURSIVE replayBreakAtEqual(_, _, _, _)
\* the loop breaking at timestamp >= target_time
replayBreakAtEqual(text, stack, target_time, index) ==
    IF index > Len(stack) THEN text
    ELSE IF stack[index].timestamp >= target_time THEN text
    ELSE replayBreakAtEqual(apply_command(text, stack[index]), stack, target_time, index + 1)

\* the for loop from its index-th iteration on, with current_text = text
replay(text, stack, target_time, index) ==
    IF index > Len(stack) THEN text
    ELSE IF stack[index].timestamp > target_time THEN text
    ELSE replay(apply_command(text, stack[index]), stack, target_time, index + 1)

\* reconstruct_document_at_time(original_text, command_stack, target_time),
\* for a stack whose patterns compile
reconstruct_document_at_time(original_text, stack, target_time) ==
    replay(original_text, stack, target_time, 1)

---------------------------------------------------------------------------
(* main: the interactive session                                           *)

\* len(matches) at line 34, and -1 when re.finditer raises re.error
MatchCount(text, pattern) ==
    IF PatternSyntaxError(pattern) THEN 0 - 1 ELSE Len(finditer(pattern, text))

\* lines 34-58 without the range check of line 54
ChooseAmongNoRangeCheck(count, choiceIn) ==
    IF count < 0 THEN [result |-> "re.error", value |-> 0]
    ELSE IF count = 0 THEN [result |-> "None", value |-> 0]
    ELSE IF ~choiceIn.valid THEN [result |-> "ValueError", value |-> 0]
    ELSE [result |-> "choice", value |-> choiceIn.value]

\* lines 34-58 from the match count on, with the line typed at the prompt:
\* raises re.error or ValueError, returns None, or returns the choice
ChooseAmong(count, choiceIn) ==
    IF count < 0 THEN [result |-> "re.error", value |-> 0]
    ELSE IF count = 0 THEN [result |-> "None", value |-> 0]
    ELSE IF ~choiceIn.valid THEN [result |-> "ValueError", value |-> 0]
    ELSE IF choiceIn.value < 1 \/ choiceIn.value > count
    THEN [result |-> "None", value |-> 0]
    ELSE [result |-> "choice", value |-> choiceIn.value]

\* choose_occurrence_with_context(text, pattern) with the line typed at its
\* prompt
choose_occurrence_with_context(text, pattern, choiceIn) ==
    ChooseAmong(MatchCount(text, pattern), choiceIn)

\* line 156: the operations the edit branch goes on with
AcceptsOperation(operation) == operation \in {Replace, InsertBefore, InsertAfter}

\* a decrement in place of the increment
NextTimestampDecrement(ts) == ts - 1

\* the increment left out
NextTimestampSame(ts) == ts

\* line 176: timestamp += 1
NextTimestamp(ts) == ts + 1

\* no filter at all
TruncateKeepsAll(stack, target_time) == stack

\* the filter with >= in place of <=
TruncateKeepsLater(stack, target_time) ==
    SelectSeq(stack, LAMBDA cmd : cmd.timestamp >= target_time)

\* the filter with < in place of <=
TruncateStrict(stack, target_time) ==
    SelectSeq(stack, LAMBDA cmd : cmd.timestamp < target_time)

\* lines 214-216: the commands kept by revert-and-continue
Truncate(stack, target_time) ==
    SelectSeq(stack, LAMBDA cmd : cmd.timestamp <= target_time)

\* the request names a match: the pattern compiles (count >= 0) and the
\* typed choice is the number of one of its count matches
RequestInRange(count, choiceIn) ==
    /\ count >= 0
    /\ choiceIn.valid
    /\ choiceIn.value >= 1
    /\ choiceIn.value <= count

\* the record of one iteration of the menu loop; removed is the number of
\* commands a revert-and-continue has dropped from the log
Asked(kind, operation, in_range, outcome, removed) ==
    [kind |-> kind, operation |-> operation, in_range |-> in_range,
     outcome |-> outcome, removed |-> removed]

Init ==
    /\ original_document \in Documents
    /\ current_document = original_document
    /\ command_stack = <<>>
    /\ timestamp = 0
    /\ status = "running"
    /\ output_txt = <<>>
    /\ last = Asked("start", <<>>, FALSE, "loaded", 0)
    /\ r_original = <<>>
    /\ r_stack = <<>>
    /\ r_target = 0
    /\ r_index = 0
    /\ r_text = <<>>
    /\ r_before = <<>>
    /\ r_pc = "idle"

\* line 147: input(...).strip() over what the user can type
MenuChoices == {strip(menuIn) : menuIn \in MenuInputs}

\* line 153: input(...).strip() over what the user can type
Operations == {strip(opIn) : opIn \in OperationInputs}

\* line 157: input(...).strip() over what the user can type
Patterns == {strip(patIn) : patIn \in PatternInputs}

\* line 171: "\n".join(lines) over what the user can type
Replacements == {join(linesIn) : linesIn \in LinesInputs}

\* line 210: input(...).lower() over what the user can type
Decisions == {lower(decisionIn) : decisionIn \in DecisionInputs}

\* line 147: the menu choice typed, stripped, is this one
Menu(choice) == status = "running" /\ choice \in MenuChoices

\* choice "1", lines 150-190, by the way the iteration ends:
\*   - the operation is not one of line 156 ("Invalid Command"); the pattern
\*     and the occurrence the user meant are never asked for
\*   - choose_occurrence_with_context returns None
\*   - choose_occurrence_with_context raises, and nothing catches it
\*   - the command is appended and applied
Edit ==
    LET counts == [pattern \in Patterns |-> MatchCount(current_document, pattern)]
        \* whether the request is in range, how choose_occurrence_with_context
        \* ends, the pattern and the occurrence
        requests == {<<RequestInRange(counts[pattern], choiceIn),
                       ChooseAmong(counts[pattern], choiceIn),
                       pattern>> :
                        pattern \in Patterns, choiceIn \in ChoiceInputs}
    IN  /\ Menu(<<"1">>)
        /\ UNCHANGED <<original_document, output_txt>>
        /\ UNCHANGED replay_vars
        /\ \E request \in requests, operation \in Operations :
              LET in_range == request[1]
                  chosen == request[2]
                  pattern == request[3]
              IN  \/ /\ ~AcceptsOperation(operation)
                     /\ last' = Asked("edit", operation, in_range, "invalid_command", 0)
                     /\ UNCHANGED <<current_document, command_stack, timestamp, status>>
                  \/ /\ AcceptsOperation(operation)
                     /\ chosen.result = "None"
                     /\ last' = Asked("edit", operation, in_range, "aborted", 0)
                     /\ UNCHANGED <<current_document, command_stack, timestamp, status>>
                  \/ /\ AcceptsOperation(operation)
                     /\ chosen.result \in {"re.error", "ValueError"}
                     /\ last' = Asked("edit", operation, in_range, chosen.result, 0)
                     /\ status' = "crashed"
                     /\ UNCHANGED <<current_document, command_stack, timestamp>>
                  \/ /\ AcceptsOperation(operation)
                     /\ chosen.result = "choice"
                     /\ Len(command_stack) < MaxLog
                     /\ \E replacement \in Replacements :
                           LET command == [operation |-> operation,
                                           pattern |-> pattern,
                                           occurrence |-> chosen.value,
                                           replacement |-> replacement,
                                           timestamp |-> NextTimestamp(timestamp)]
                           IN  /\ timestamp' = command.timestamp
                               /\ command_stack' = Append(command_stack, command)
                               /\ current_document' =
                                      apply_command(current_document, command)
                     /\ last' = Asked("edit", operation, in_range, "accepted", 0)
                     /\ UNCHANGED status

\* choice "2", lines 193-196: nothing to revert
RevertNoEdits ==
    /\ Menu(<<"2">>)
    /\ command_stack = <<>>
    /\ last' = Asked("revert", <<>>, FALSE, "no_edits", 0)
    /\ UNCHANGED <<original_document, current_document, command_stack,
                   timestamp, status, output_txt>>
    /\ UNCHANGED replay_vars

\* choice "2", line 199: int() raises ValueError, which nothing catches
RevertRaise ==
    /\ Menu(<<"2">>)
    /\ command_stack # <<>>
    /\ NotANumber \in TargetInputs
    /\ last' = Asked("revert", <<>>, FALSE, "ValueError", 0)
    /\ status' = "crashed"
    /\ UNCHANGED <<original_document, current_document, command_stack,
                   timestamp, output_txt>>
    /\ UNCHANGED replay_vars

\* the reverted text taken over whatever the answer at line 210
RevertPreviewAdopts ==
    \E targetIn \in TargetInputs :
        /\ Menu(<<"2">>)
        /\ command_stack # <<>>
        /\ targetIn.valid
        /\ Decisions # {"y"}
        /\ current_document' =
               reconstruct_document_at_time(original_document, command_stack,
                                            targetIn.value)
        /\ last' = Asked("revert", <<>>, FALSE, "preview", 0)
        /\ UNCHANGED <<original_document, command_stack, timestamp, status,
                       output_txt>>
        /\ UNCHANGED replay_vars

\* choice "2", lines 193-219, the answer at line 210 is not "y"
RevertPreview ==
    /\ Menu(<<"2">>)
    /\ command_stack # <<>>
    /\ TargetInputs # {NotANumber}
    /\ Decisions # {"y"}
    /\ last' = Asked("revert", <<>>, FALSE, "preview", 0)
    /\ UNCHANGED <<original_document, current_document, command_stack,
                   timestamp, status, output_txt>>
    /\ UNCHANGED replay_vars

\* choice "2", lines 193-219, the answer at line 210 is "y"
RevertContinue ==
    \E targetIn \in TargetInputs :
        LET target_time == targetIn.value
        IN  /\ Menu(<<"2">>)
            /\ command_stack # <<>>
            /\ targetIn.valid
            /\ "y" \in Decisions
            /\ current_document' =
                   reconstruct_document_at_time(original_document, command_stack,
                                                target_time)
            /\ timestamp' = target_time
            /\ command_stack' = Truncate(command_stack, target_time)
            /\ last' = Asked("revert", <<>>, FALSE, "continued",
                             Len(command_stack)
                                 - Len(Truncate(command_stack, target_time)))
            /\ UNCHANGED <<original_document, status, output_txt>>
            /\ UNCHANGED replay_vars

\* choice "3", lines 222-226
Exit ==
    /\ Menu(<<"3">>)
    /\ output_txt' = Append(output_txt, current_document)
    /\ status' = "exited"
    /\ last' = Asked("exit", <<>>, FALSE, "saved", 0)
    /\ UNCHANGED <<original_document, current_document, command_stack, timestamp>>
    /\ UNCHANGED replay_vars

\* any other choice, lines 228-229
InvalidChoice ==
    /\ status = "running"
    /\ MenuChoices \ {<<"1">>, <<"2">>, <<"3">>} # {}
    /\ last' = Asked("menu", <<>>, FALSE, "invalid_choice", 0)
    /\ UNCHANGED <<original_document, current_document, command_stack,
                   timestamp, status, output_txt>>
    /\ UNCHANGED replay_vars

Next ==
    \/ Edit
    \/ RevertNoEdits
    \/ RevertRaise
    \/ RevertPreview
    \/ RevertContinue
    \/ Exit
    \/ InvalidChoice

Spec == Init /\ [][Next]_vars

---------------------------------------------------------------------------
(* reconstruct_document_at_time called directly, one loop iteration a step *)

InitReplay ==
    /\ r_original \in ReplayDocuments
    /\ r_stack \in ReplayStacks
    /\ r_target \in ReplayTargets
    /\ r_index = 0
    /\ r_text = r_original
    /\ r_before = r_original
    /\ r_pc = "loop"
    /\ original_document = <<>>
    /\ current_document = <<>>
    /\ command_stack = <<>>
    /\ timestamp = 0
    /\ status = "exited"
    /\ output_txt = <<>>
    /\ last = Asked("start", <<>>, FALSE, "loaded", 0)

\* lines 110-111: the next command is later than target_time
ReplayBreak ==
    /\ r_pc = "loop"
    /\ r_index < Len(r_stack)
    /\ r_stack[r_index + 1].timestamp > r_target
    /\ r_pc' = "returned"
    /\ UNCHANGED <<r_original, r_stack, r_target, r_index, r_text, r_before>>
    /\ UNCHANGED session_vars

\* line 112 -> line 73: re.finditer raises re.error, which nothing catches
ReplayRaise ==
    /\ r_pc = "loop"
    /\ r_index < Len(r_stack)
    /\ r_stack[r_index + 1].timestamp <= r_target
    /\ PatternSyntaxError(r_stack[r_index + 1].pattern)
    /\ r_pc' = "raised"
    /\ UNCHANGED <<r_original, r_stack, r_target, r_index, r_text, r_before>>
    /\ UNCHANGED session_vars

\* line 112: current_text = apply_command(current_text, command)
ReplayApply ==
    /\ r_pc = "loop"
    /\ r_index < Len(r_stack)
    /\ r_stack[r_index + 1].timestamp <= r_target
    /\ ~PatternSyntaxError(r_stack[r_index + 1].pattern)
    /\ r_before' = r_text
    /\ r_text' = apply_command(r_text, r_stack[r_index + 1])
    /\ r_index' = r_index + 1
    /\ UNCHANGED <<r_original, r_stack, r_target, r_pc>>
    /\ UNCHANGED session_vars

\* the loop of lines 109-114 ends one iteration late
ReplayReturnLate ==
    /\ r_pc = "loop"
    /\ r_index = Len(r_stack) + 1
    /\ r_pc' = "returned"
    /\ UNCHANGED <<r_original, r_stack, r_target, r_index, r_text, r_before>>
    /\ UNCHANGED session_vars

\* line 114: the loop is over
ReplayReturn ==
    /\ r_pc = "loop"
    /\ r_index = Len(r_stack)
    /\ r_pc' = "returned"
    /\ UNCHANGED <<r_original, r_stack, r_target, r_index, r_text, r_before>>
    /\ UNCHANGED session_vars

NextReplay == ReplayBreak \/ ReplayRaise \/ ReplayApply \/ ReplayReturn

SpecReplay == InitReplay /\ [][NextReplay]_vars

---------------------------------------------------------------------------
(* The session with the call at line 201 run one loop iteration a step.    *)

\* main() is at the menu prompt: no call of reconstruct_document_at_time is
\* under way
AtMenu == r_pc = "idle"

\* choice "2", lines 193-201: reconstruct_document_at_time is called with
\* the log of the session and the target typed
RevertCall ==
    \E targetIn \in TargetInputs :
        /\ AtMenu
        /\ Menu(<<"2">>)
        /\ command_stack # <<>>
        /\ targetIn.valid
        /\ r_original' = original_document
        /\ r_stack' = command_stack
        /\ r_target' = targetIn.value
        /\ r_index' = 0
        /\ r_text' = original_document
        /\ r_before' = original_document
        /\ r_pc' = "loop"
        /\ UNCHANGED session_vars

\* lines 207-219: the call has returned, the reverted text is shown and the
\* answer at line 210 decides
RevertAnswer ==
    /\ r_pc = "returned"
    /\ \E decision \in Decisions :
          IF decision = "y"
          THEN /\ current_document' = r_text
               /\ timestamp' = r_target
               /\ command_stack' = Truncate(command_stack, r_target)
               /\ last' = Asked("revert", <<>>, FALSE, "continued",
                                Len(command_stack)
                                    - Len(Truncate(command_stack, r_target)))
          ELSE /\ last' = Asked("revert", <<>>, FALSE, "preview", 0)
               /\ UNCHANGED <<current_document, timestamp, command_stack>>
    /\ r_original' = <<>>
    /\ r_stack' = <<>>
    /\ r_target' = 0
    /\ r_index' = 0
    /\ r_text' = <<>>
    /\ r_before' = <<>>
    /\ r_pc' = "idle"
    /\ UNCHANGED <<original_document, status, output_txt>>

\* one step of the call: it needs no input and runs to its end
ReplayStep == ReplayBreak \/ ReplayApply \/ ReplayReturn

NextRevertCall ==
    \/ AtMenu /\ Edit
    \/ AtMenu /\ RevertNoEdits
    \/ AtMenu /\ RevertRaise
    \/ RevertCall
    \/ ReplayBreak
    \/ ReplayApply
    \/ ReplayReturn
    \/ RevertAnswer
    \/ AtMenu /\ Exit
    \/ AtMenu /\ InvalidChoice

SpecRevertCall == Init /\ [][NextRevertCall]_vars /\ WF_vars(ReplayStep)

---------------------------------------------------------------------------
(* Properties of the session (Spec).                                       *)

Timestamps(stack) == {stack[i].timestamp : i \in DOMAIN stack}

\* the largest timestamp in a non-empty stack
MaxTimestamp(stack) ==
    CHOOSE t \in Timestamps(stack) : \A u \in Timestamps(stack) : u <= t

MinTimestamp(stack) ==
    CHOOSE t \in Timestamps(stack) : \A u \in Timestamps(stack) : t <= u

FourOperations == {Replace, InsertBefore, InsertAfter, Delete}

\* C1: the cached current_document is the full replay of the log from
\* original_document (up to the largest timestamp in the log), and is
\* original_document when the log is empty.
C1_CacheConsistent ==
    current_document =
        IF command_stack = <<>> THEN original_document
        ELSE reconstruct_document_at_time(original_document, command_stack,
                                          MaxTimestamp(command_stack))

\* a revert-and-continue has left a non-empty log whose replay is not the
\* original text
C1_Witness ==
    /\ last.kind = "revert"
    /\ last.outcome = "continued"
    /\ command_stack # <<>>
    /\ current_document # original_document

\* C2: the timestamps of the log strictly increase in list order (so they
\* are pairwise distinct), whatever targets were entered at revert.
C2_StrictlyIncreasing ==
    \A i, j \in DOMAIN command_stack :
        i < j => command_stack[i].timestamp < command_stack[j].timestamp

\* a log written after a revert below 1 and a revert above the latest
\* timestamp: it starts below 1 and has a gap
C2_Witness ==
    /\ Len(command_stack) >= 2
    /\ command_stack[1].timestamp < 1
    /\ command_stack[2].timestamp > command_stack[1].timestamp + 1

\* C3: every command in the log has a timestamp >= 1.
C3_PositiveTimestamps ==
    \A i \in DOMAIN command_stack : command_stack[i].timestamp >= 1

\* C4: reconstructing the session's log at target_time 0 gives
\* original_document: no command of the log is applied.
C4_ZeroIsOriginal ==
    reconstruct_document_at_time(original_document, command_stack, 0)
        = original_document

\* C5: a newly appended command gets one more than the largest timestamp
\* that was in the log, and 1 when the log was empty.
C5_NextTimestampRule ==
    [][Len(command_stack') = Len(command_stack) + 1
        => command_stack'[Len(command_stack')].timestamp =
              IF command_stack = <<>> THEN 1
              ELSE MaxTimestamp(command_stack) + 1]_vars

\* C6: an edit request with one of the four operations whose pattern has a
\* match in current_document and whose choice is the number of a match
\* appends exactly one command, of that operation, and sets current_document
\* to apply_command(current_document, command).
C6_FourOperationsAccepted ==
    [][(/\ last'.kind = "edit"
        /\ last'.operation \in FourOperations
        /\ last'.in_range)
        => /\ Len(command_stack') = Len(command_stack) + 1
           /\ SubSeq(command_stack', 1, Len(command_stack)) = command_stack
           /\ command_stack'[Len(command_stack')].operation = last'.operation
           /\ current_document' =
                apply_command(current_document, command_stack'[Len(command_stack')])]_vars

RECURSIVE ApplyAll(_, _)
\* the commands of a list applied one after the other, in list order
ApplyAll(text, commands) ==
    IF commands = <<>> THEN text
    ELSE ApplyAll(apply_command(text, Head(commands)), Tail(commands))

\* the commands of the stack with a timestamp in (t1, t2], in list order
Window(stack, t1, t2) ==
    SelectSeq(stack, LAMBDA cmd : t1 < cmd.timestamp /\ cmd.timestamp <= t2)

\* the target times around the timestamps of the log
TimesAround(stack) ==
    IF stack = <<>> THEN 0..1
    ELSE (MinTimestamp(stack) - 1)..(MaxTimestamp(stack) + 1)

\* C7: for T1 < T2, applying the commands with a timestamp in (T1, T2], in
\* log order, to the text reconstructed at T1 gives the text reconstructed
\* at T2.
C7_MonotonicConvergence ==
    \A at \in {[t \in TimesAround(command_stack) |->
                  reconstruct_document_at_time(original_document, command_stack, t)]} :
        \A t1, t2 \in DOMAIN at :
            t1 < t2 => ApplyAll(at[t1], Window(command_stack, t1, t2)) = at[t2]

\* a log of two commands whose three reconstructions differ
C7_Witness ==
    /\ Len(command_stack) = 2
    /\ LET first == reconstruct_document_at_time(original_document, command_stack,
                                                 command_stack[1].timestamp)
       IN  /\ first # original_document
           /\ first # current_document

---------------------------------------------------------------------------
(* Properties of apply_command and of the replay loop (SpecReplay).        *)

\* the positions at which the pattern matches the text
MatchStarts(pattern, text) ==
    {p \in 0..Len(text) : MatchesAt(pattern, text, p)}

\* the least match position that is >= from, and -1 when there is none
LeastMatchFrom(pattern, text, from) ==
    LET later == {p \in MatchStarts(pattern, text) : p >= from}
    IN  IF later = {} THEN 0 - 1
        ELSE CHOOSE p \in later : \A q \in later : p <= q

\* where the search goes on after a match at position p
AfterMatch(pattern, p) == IF Len(pattern) = 0 THEN p + 1 ELSE p + Len(pattern)

RECURSIVE NthMatchStart(_, _, _, _)
\* the start of the n-th (n >= 1) of the left-to-right non-overlapping
\* matches that begin at or after from, and -1 when there are fewer
NthMatchStart(pattern, text, n, from) ==
    LET p == LeastMatchFrom(pattern, text, from)
    IN  IF p < 0 THEN 0 - 1
        ELSE IF n = 1 THEN p
        ELSE NthMatchStart(pattern, text, n - 1, AfterMatch(pattern, p))

RECURSIVE NumMatchesFrom(_, _, _)
\* the number of left-to-right non-overlapping matches that begin at or
\* after from
NumMatchesFrom(pattern, text, from) ==
    LET p == LeastMatchFrom(pattern, text, from)
    IN  IF p < 0 THEN 0
        ELSE 1 + NumMatchesFrom(pattern, text, AfterMatch(pattern, p))

\* the number of left-to-right non-overlapping matches
NumMatches(pattern, text) == NumMatchesFrom(pattern, text, 0)

\* the replay loop has called apply_command; the call's arguments
Applied == r_index >= 1
AppliedCommand == r_stack[r_index]

\* C8: for 1 <= occurrence <= number of matches and one of the four
\* operations, the result is text[:start] + new_text + text[end:], where
\* [start, end) is the occurrence-th left-to-right non-overlapping match in
\* the text passed in and new_text is the replacement (replace), matched +
\* replacement (insert_after), replacement + matched (insert_before) or
\* empty (delete); the text outside [start, end) is preserved.
C8_ApplyInRange ==
    Applied =>
        LET command == AppliedCommand
            pattern == command.pattern
            n == NumMatches(pattern, r_before)
        IN  (/\ 1 <= command.occurrence
             /\ command.occurrence <= n
             /\ command.operation \in FourOperations)
            => LET start == NthMatchStart(pattern, r_before, command.occurrence, 0)
                   end == start + Len(pattern)
                   matched == [i \in 1..(end - start) |-> r_before[start + i]]
                   given == IF "replacement" \in DOMAIN command
                            THEN command.replacement ELSE <<>>
                   new_text ==
                       CASE command.operation = Replace -> given
                         [] command.operation = InsertAfter -> matched \o given
                         [] command.operation = InsertBefore -> given \o matched
                         [] command.operation = Delete -> <<>>
               IN  /\ Len(r_text) = start + Len(new_text) + (Len(r_before) - end)
                   /\ \A i \in 1..start : r_text[i] = r_before[i]
                   /\ \A i \in 1..Len(new_text) : r_text[start + i] = new_text[i]
                   /\ \A i \in 1..(Len(r_before) - end) :
                          r_text[start + Len(new_text) + i] = r_before[end + i]

\* Scenario A then Scenario B: "cat sat" -> "cog sat" -> "cog s"
C8_Witness ==
    /\ r_original = CatSat
    /\ r_index = 2
    /\ r_stack[1] = [operation |-> Replace, pattern |-> At, occurrence |-> 1,
                     replacement |-> Og, timestamp |-> 1]
    /\ r_before = CogSat
    /\ r_stack[2].operation = Delete
    /\ r_stack[2].pattern = At
    /\ r_stack[2].occurrence = 1
    /\ r_text = CogS

\* C9: with an occurrence outside [1, number of matches] apply_command
\* returns the text it was given, for every operation, and does not raise:
\* the replay raises only on a pattern that does not compile.
C9_OutOfRangeNoOp ==
    /\ Applied =>
          LET command == AppliedCommand
              n == NumMatches(command.pattern, r_before)
          IN  (command.occurrence < 1 \/ command.occurrence > n) => r_text = r_before
    /\ r_pc = "raised" => PatternSyntaxError(r_stack[r_index + 1].pattern)

\* a delete with a negative occurrence, then an insert_after of occurrence 1
\* of a pattern without any match, both applied and the text as it was
C9_Witness ==
    /\ r_index = 2
    /\ r_stack[1].operation = Delete
    /\ r_stack[1].occurrence < 0
    /\ r_stack[2].operation = InsertAfter
    /\ r_stack[2].occurrence = 1
    /\ NumMatches(r_stack[2].pattern, r_before) = 0
    /\ r_text = r_original

\* C10: a command with an operation other than the four returns the text it
\* was given, also when its occurrence selects a match, and the replay of a
\* stack is the replay of the stack without such commands.
C10_UnknownOperationNoOp ==
    /\ (Applied /\ AppliedCommand.operation \notin FourOperations) => r_text = r_before
    /\ r_pc = "returned" =>
          r_text = reconstruct_document_at_time(
                       r_original,
                       SelectSeq(r_stack, LAMBDA cmd : cmd.operation \in FourOperations),
                       r_target)

\* a returned replay of an unknown operation on an existing first match,
\* followed by a command that changed the text
C10_Witness ==
    /\ r_pc = "returned"
    /\ r_index = 2
    /\ r_stack[1].operation \notin FourOperations
    /\ r_stack[1].occurrence = 1
    /\ NumMatches(r_stack[1].pattern, r_original) >= 1
    /\ r_text # r_original

---------------------------------------------------------------------------
(* Properties of the session (Spec), continued.                            *)

\* the commands of stack, as a set
Commands(stack) == {stack[i] : i \in DOMAIN stack}

\* the step was a revert answered "y"
ContinuedStep == last'.kind = "revert" /\ last'.outcome = "continued"

\* the step was an edit that went through to lines 176-187
AcceptedStep == last'.kind = "edit" /\ last'.outcome = "accepted"

\* C11: a revert-and-continue to T keeps exactly the commands with
\* timestamp <= T, unchanged and in the same order, and drops the others;
\* no step puts a dropped command back: a step that is not an accepted edit
\* adds nothing to the log, and an accepted edit adds only the one command
\* it builds, numbered timestamp + 1, after the commands already there.
C11_TruncationExact ==
    [][/\ ContinuedStep =>
            /\ \A i \in DOMAIN command_stack :
                   (command_stack[i].timestamp <= timestamp')
                       <=> (command_stack[i] \in Commands(command_stack'))
            /\ Commands(command_stack') \subseteq Commands(command_stack)
            /\ \A j1, j2 \in DOMAIN command_stack' :
                   j1 < j2 =>
                       \E i1, i2 \in DOMAIN command_stack :
                           /\ i1 < i2
                           /\ command_stack[i1] = command_stack'[j1]
                           /\ command_stack[i2] = command_stack'[j2]
            /\ Len(command_stack') = Len(command_stack) - last'.removed
       /\ ~AcceptedStep => Commands(command_stack') \subseteq Commands(command_stack)
       /\ AcceptedStep =>
            /\ Len(command_stack') = Len(command_stack) + 1
            /\ SubSeq(command_stack', 1, Len(command_stack)) = command_stack
            /\ command_stack'[Len(command_stack')].timestamp = timestamp + 1]_vars

\* a revert-and-continue that dropped a command and kept another
C11_Witness ==
    /\ last.outcome = "continued"
    /\ last.removed >= 1
    /\ command_stack # <<>>

\* C12: an edit attempt whose pattern does not compile leaves the log, the
\* timestamp counter and current_document as they were, and the session
\* goes on: it is still at the menu, where edit, revert and exit are
\* accepted.
C12_InvalidPatternRecoverable ==
    [][(last'.kind = "edit" /\ last'.outcome = "re.error")
        => /\ UNCHANGED <<command_stack, timestamp, current_document>>
           /\ status' = "running"]_vars

\* C13: an edit attempt whose pattern has no match in current_document, or
\* whose chosen occurrence is outside [1, number of matches], appends no
\* command and leaves the timestamp counter, current_document and the log as
\* they were; and every command that is appended has an occurrence within
\* [1, number of matches of its pattern in current_document] at that moment.
C13_AbortedEditChangesNothing ==
    [][/\ (last'.kind = "edit" /\ (last'.outcome = "aborted" \/ ~last'.in_range))
            => UNCHANGED <<command_stack, timestamp, current_document>>
       /\ Len(command_stack') = Len(command_stack) + 1
            => LET command == command_stack'[Len(command_stack')]
               IN  /\ 1 <= command.occurrence
                   /\ command.occurrence
                          <= NumMatches(command.pattern, current_document)]_vars

\* an edit attempt aborted on a text that an earlier edit has changed
C13_Witness ==
    /\ last.kind = "edit"
    /\ last.outcome = "aborted"
    /\ ~last.in_range
    /\ command_stack # <<>>
    /\ current_document # original_document

\* the commands of the stack with timestamp <= target_time, in list order
UpTo(stack, target_time) ==
    SelectSeq(stack, LAMBDA cmd : cmd.timestamp <= target_time)

\* C14: for every log of the session and every target_time, the forward
\* scan with early exit returns the text obtained by applying, in log order,
\* exactly the commands with timestamp <= target_time; so after a
\* revert-and-continue current_document is the replay of exactly the
\* commands left in the log.
C14_ScanEqualsPrefixFilter ==
    /\ \A target_time \in TimesAround(command_stack) :
           reconstruct_document_at_time(original_document, command_stack, target_time)
               = ApplyAll(original_document, UpTo(command_stack, target_time))
    /\ last.outcome = "continued"
           => current_document = ApplyAll(original_document, command_stack)

\* a revert-and-continue that dropped a command and shows the replay of the
\* one it kept
C14_Witness ==
    /\ last.outcome = "continued"
    /\ last.removed = 1
    /\ Len(command_stack) = 1
    /\ current_document # original_document
    /\ current_document = ApplyAll(original_document, command_stack)

C16_HistoryFidelity ==
    [][/\ Len(command_stack') = Len(command_stack) + 1
            => reconstruct_document_at_time(
                   original_document', command_stack',
                   command_stack'[Len(command_stack')].timestamp)
                 = current_document'
       /\ \A c \in Commands(command_stack) \cap Commands(command_stack') :
              reconstruct_document_at_time(original_document', command_stack',
                                           c.timestamp)
                = reconstruct_document_at_time(original_document, command_stack,
                                               c.timestamp)]_vars

\* a revert-and-continue that kept two commands, the text at the first
\* one's timestamp being neither the original nor the current text
C16_Witness ==
    /\ last.outcome = "continued"
    /\ last.removed = 0
    /\ Len(command_stack) = 2
    /\ reconstruct_document_at_time(original_document, command_stack,
                                    command_stack[1].timestamp)
           \notin {original_document, current_document}

---------------------------------------------------------------------------
(* Properties of the call at line 201 (SpecRevertCall).                    *)

\* C17: every call of reconstruct_document_at_time on a log of the session,
\* with any target_time, returns: it never raises (no command of the log
\* makes re.finditer raise), it visits at most len(log) commands, and once
\* started it reaches its return.
C17_ReplayCompletes ==
    /\ [](/\ r_pc # "raised"
          /\ ~ENABLED ReplayRaise
          /\ r_pc = "loop" => r_stack = command_stack
          /\ r_index <= Len(r_stack))
    /\ (r_pc = "loop") ~> (r_pc = "returned")

\* a call that has visited both commands of a log of two and returned a
\* text that both have changed
C17_Witness ==
    /\ r_pc = "returned"
    /\ r_stack = command_stack
    /\ Len(r_stack) = 2
    /\ r_index = 2
    /\ r_text # r_before
    /\ r_before # r_original


===========================================================================
